---- MODULE Spec2Model ----
(***************************************************************************)
(* A model of picsum-rs: the client builder (src/lib.rs) and the four      *)
(* operations of PicsumClient (src/api.rs): get_image_details, get_images, *)
(* get_image and get_random_image.                                         *)
(*                                                                         *)
(* Strings that the code builds with format! or to_string are sequences of *)
(* tokens (a token is a TLA+ string); a decimal number is the sequence of  *)
(* its digit tokens.  Byte strings are sequences of numbers in 0..255.     *)
(***************************************************************************)
EXTENDS Integers, Sequences, FiniteSets, TLC

\* ------------------------------------------------------------------------
\* Bounds of the model
\* ------------------------------------------------------------------------

\* number of calls made one after the other on the client
MaxCalls == 2

\* number of calls made at the same time on the client and its clones
MaxConcurrent == 2

\* ------------------------------------------------------------------------
\* Program constants
\* ------------------------------------------------------------------------

BASE_URL == "https://picsum.photos"

\* the largest blur the service accepts: min(10, self.blur)
MaxBlur == 10

\* the largest values of the u8 and u16 types
U8Max == 255
U16Max == 65535

\* StatusCode::BAD_REQUEST and StatusCode::INTERNAL_SERVER_ERROR
BAD_REQUEST == 400
INTERNAL_SERVER_ERROR == 500

\* ------------------------------------------------------------------------
\* Input domains
\* ------------------------------------------------------------------------

\* a base URL given to PicsumClientBuilder::base_url
OtherUrl == "http://localhost:8080"
BaseUrls == {BASE_URL, OtherUrl}

\* the transports a caller gives to PicsumClientBuilder::client
Transports == {"custom"}

\* image ids passed by the caller (path-safe tokens)
Ids == {"1", "42"}

Widths == {1, 400}
Heights == {300}
BlurValues == {0, 3, 200}
FileTypes == {"Jpeg", "Webp"}

ImageSettingsSet ==
    [width : Widths, height : Heights, grayscale : BOOLEAN,
     blur : BlurValues, file_type : FileTypes]

Pages == {1, 300}
Limits == {10, 255}

\* the statuses of the responses the transport delivers: success (200),
\* not an error and not a success (304), client errors and server errors
Statuses == {200, 304, 400, 404, 500, 503}

\* the kinds of failure of send(): no response was received
TransportErrors == {"connect", "timeout", "dns"}

\* the bytes of a `picsum-id` response header: "1", "42", and bytes that
\* are not visible ASCII
HeaderBytes == {<<49>>, <<52, 50>>, <<49, 255>>}

\* the headers of a response: none, or a `picsum-id` header
HeaderSets == {<< >>} \cup { << <<"picsum-id", hb>> >> : hb \in HeaderBytes }

\* the status line and the headers of a response, as send() returns them
Heads == [status : Statuses, headers : HeaderSets]

\* ------------------------------------------------------------------------
\* JSON documents, as serde_json sees a response body
\* ------------------------------------------------------------------------

JStr(s) == [t |-> "str", v |-> s]
JNum(n) == [t |-> "num", v |-> n]
JObj(members) == [t |-> "obj", members |-> members]
JArr(items) == [t |-> "arr", items |-> items]
JMalformed == [t |-> "malformed"]

DetailsObj1 ==
    JObj(<< <<"id", JStr("1")>>, <<"author", JStr("Alejandro Escamilla")>>,
            <<"width", JNum(5000)>>, <<"height", JNum(3333)>>,
            <<"url", JStr("https://unsplash.com/photos/LNRyGwIJr5c")>>,
            <<"download_url", JStr("https://picsum.photos/id/1/5000/3333")>> >>)

\* the fields in another order, with a field the struct does not have
DetailsObj2 ==
    JObj(<< <<"download_url", JStr("https://picsum.photos/id/42/30/20")>>,
            <<"extra", JNum(7)>>,
            <<"url", JStr("https://unsplash.com/photos/x")>>,
            <<"height", JNum(20)>>, <<"width", JNum(30)>>,
            <<"author", JStr("Paul Jarvis")>>, <<"id", JStr("42")>> >>)

\* download_url is missing
DetailsObjMissing ==
    JObj(<< <<"id", JStr("1")>>, <<"author", JStr("Alejandro Escamilla")>>,
            <<"width", JNum(5000)>>, <<"height", JNum(3333)>>,
            <<"url", JStr("https://unsplash.com/photos/LNRyGwIJr5c")>> >>)

\* width does not fit a u16
DetailsObjWide ==
    JObj(<< <<"id", JStr("1")>>, <<"author", JStr("Alejandro Escamilla")>>,
            <<"width", JNum(70000)>>, <<"height", JNum(3333)>>,
            <<"url", JStr("https://unsplash.com/photos/LNRyGwIJr5c")>>,
            <<"download_url", JStr("https://picsum.photos/id/1/5000/3333")>> >>)

\* a page of ten objects, as /v2/list answers to limit=10
PageOfTen == [i \in 1..10 |-> IF i % 2 = 1 THEN DetailsObj1 ELSE DetailsObj2]

\* a response body: its raw bytes and the JSON document they parse to
Body(bytes, json) == [bytes |-> bytes, json |-> json]

Bodies ==
    { Body(<<255, 216, 255>>, JMalformed),
      Body(<< >>, JMalformed),
      Body(<<123, 1>>, DetailsObj1),
      Body(<<123, 2>>, DetailsObj2),
      Body(<<123, 3>>, DetailsObjMissing),
      Body(<<123, 4>>, DetailsObjWide),
      Body(<<91, 93>>, JArr(<< >>)),
      Body(<<91, 1, 2>>, JArr(<<DetailsObj1, DetailsObj2>>)),
      Body(<<91, 1, 3>>, JArr(<<DetailsObj1, DetailsObjMissing>>)),
      Body(<<91, 10>>, JArr(PageOfTen)) }

\* the body could not be read to its end
BodyReadError == [bytes |-> << >>, json |-> [t |-> "read error"]]
BodyOutcomes == Bodies \cup {BodyReadError}

\* ------------------------------------------------------------------------
\* Values of Option and Result
\* ------------------------------------------------------------------------

None == << >>
Some(v) == <<v>>

Ok(v) == [tag |-> "Ok", value |-> v]
Err(e) == [tag |-> "Err", err |-> e]
Pending == [tag |-> "None"]

\* the four variants of RequestError, each with its message
InvalidRequest(msg) == [kind |-> "InvalidRequest", msg |-> msg]
InvalidResponse(msg) == [kind |-> "InvalidResponse", msg |-> msg]
ServerError(msg) == [kind |-> "ServerError", msg |-> msg]
UnexpectedError(msg) == [kind |-> "UnexpectedError", msg |-> msg]

\* ------------------------------------------------------------------------
\* Formatting
\* ------------------------------------------------------------------------

DigitChars == <<"0", "1", "2", "3", "4", "5", "6", "7", "8", "9">>

\* Display of an unsigned integer: its decimal digits, no leading zero
RECURSIVE to_string(_)
to_string(n) ==
    IF n < 10 THEN <<DigitChars[n + 1]>>
    ELSE to_string(n \div 10) \o <<DigitChars[(n % 10) + 1]>>

\* the digits a token sequence starts with
IsDigit(c) == \E d \in DOMAIN DigitChars : DigitChars[d] = c

RECURSIVE TakeDigits(_)
TakeDigits(s) ==
    IF s = << >> \/ ~IsDigit(Head(s)) THEN << >>
    ELSE <<Head(s)>> \o TakeDigits(Tail(s))

\* the number a sequence of digits is the decimal notation of
DigitValue(c) == (CHOOSE d \in DOMAIN DigitChars : DigitChars[d] = c) - 1

RECURSIVE DecimalValue(_)
DecimalValue(s) ==
    IF s = << >> THEN 0
    ELSE 10 * DecimalValue(SubSeq(s, 1, Len(s) - 1)) + DigitValue(s[Len(s)])

\* s is the decimal notation of n
IsDecimalOf(s, n) ==
    /\ s # << >>
    /\ \A i \in DOMAIN s : IsDigit(s[i])
    /\ DecimalValue(s) = n

\* as_string with another extension for Jpeg
as_string_jpeg(file_type) ==
    CASE file_type = "Jpeg" -> "jpeg"
      [] file_type = "Webp" -> "webp"

\* FileType::as_string
as_string(file_type) ==
    CASE file_type = "Jpeg" -> "jpg"
      [] file_type = "Webp" -> "webp"

\* ------------------------------------------------------------------------
\* ImageSettings
\* ------------------------------------------------------------------------

Min(a, b) == IF a < b THEN a ELSE b

\* ImageSettings::default
ImageSettingsDefault ==
    [width |-> 400, height |-> 400, grayscale |-> FALSE, blur |-> 0,
     file_type |-> "Jpeg"]

\* get_blur_value without the clamp
get_blur_value_unclamped(self) == self.blur

get_blur_value(self) == Min(MaxBlur, self.blur)

\* has_blur that tests the blur against the clamp
has_blur_above(self) == self.blur > MaxBlur

has_blur(self) == self.blur > 0

is_grayscale(self) == self.grayscale

\* bool::then_some
then_some(b, v) == IF b THEN Some(v) ELSE None

\* iter().filter_map(|param| param.clone()).collect() of two Options
filter_map2(o1, o2) == o1 \o o2

\* generate_query_params that always emits the grayscale flag
generate_query_params_flag(self) ==
    filter_map2(Some(<<"grayscale",
                       IF self.grayscale THEN <<"true">> ELSE <<"false">> >>),
                then_some(has_blur(self),
                          <<"blur", to_string(get_blur_value(self))>>))

generate_query_params(self) ==
    filter_map2(then_some(is_grayscale(self), <<"grayscale", <<"true">>>>),
                then_some(has_blur(self),
                          <<"blur", to_string(get_blur_value(self))>>))

\* ------------------------------------------------------------------------
\* reqwest: errors, status classification, headers, bodies
\* ------------------------------------------------------------------------

\* a reqwest::Error: its kind, and the status it carries, if any
StatusError(code) == [kind |-> "status", status |-> Some(code)]
SendError(kind) == [kind |-> kind, status |-> None]
BodyError == [kind |-> "body", status |-> None]
DecodeError == [kind |-> "decode", status |-> None]

\* reqwest::Error::status
err_status(err) == err.status

\* Display of a reqwest::Error
err_to_string(err) ==
    IF err.status # None
    THEN <<"HTTP status error (">> \o to_string(err.status[1]) \o <<")">>
    ELSE <<"reqwest error: ", err.kind>>

\* Display of a StatusCode: the number and the reason phrase
status_to_string(code) == to_string(code) \o <<" ", "<reason>">>

\* StatusCode::is_client_error, is_server_error
is_client_error(code) == code >= 400 /\ code < 500
is_server_error(code) == code >= 500 /\ code < 600

\* Response::error_for_status: an error for the statuses 400..599 only
error_for_status(r) ==
    IF is_client_error(r.status) \/ is_server_error(r.status)
    THEN Err(StatusError(r.status))
    ELSE Ok(r)

\* HeaderMap::get
headers_get(res, name) ==
    LET found == {i \in DOMAIN res.headers : res.headers[i][1] = name}
    IN  IF found = {} THEN None
        ELSE Some(res.headers[CHOOSE i \in found : \A j \in found : i <= j][2])

\* HeaderValue::to_str: the bytes as text when all are visible ASCII
is_visible_ascii(b) == (b >= 32 /\ b < 127) \/ b = 9

to_str(v) ==
    IF \A i \in DOMAIN v : is_visible_ascii(v[i])
    THEN Ok(v)
    ELSE Err(<<"failed to convert header to a str">>)

\* Response::bytes: the whole body, or the error of reading it
response_bytes(b) ==
    IF b = BodyReadError THEN Err(BodyError) ELSE Ok(b.bytes)

\* ------------------------------------------------------------------------
\* serde: decoding a JSON document into ImageDetails and Vec<ImageDetails>
\* ------------------------------------------------------------------------

\* the fields of struct ImageDetails, in the order of declaration
DetailsFields == <<"id", "author", "width", "height", "url", "download_url">>

\* the JSON value v is of the type of field f (String, or u16)
field_fits(f, v) ==
    IF f \in {"width", "height"}
    THEN v.t = "num" /\ v.v \in 0..U16Max
    ELSE v.t = "str"

\* the positions of key f among the members of an object
occurrences(members, f) == {i \in DOMAIN members : members[i][1] = f}

\* the value of key f in an object that has it once
member(members, f) == members[CHOOSE i \in occurrences(members, f) : TRUE][2]

\* Deserialize for ImageDetails (derived): from an object every field is
\* required, once, with a value of its type, and other keys are skipped;
\* from an array the six values are taken in the order of declaration
deserialize_details(j) ==
    CASE j.t = "obj" ->
           IF \A k \in DOMAIN DetailsFields :
                  /\ Cardinality(occurrences(j.members, DetailsFields[k])) = 1
                  /\ field_fits(DetailsFields[k],
                                member(j.members, DetailsFields[k]))
           THEN Ok([id |-> member(j.members, "id").v,
                    author |-> member(j.members, "author").v,
                    width |-> member(j.members, "width").v,
                    height |-> member(j.members, "height").v,
                    url |-> member(j.members, "url").v,
                    download_url |-> member(j.members, "download_url").v])
           ELSE Err(DecodeError)
      [] j.t = "arr" ->
           IF /\ Len(j.items) = Len(DetailsFields)
              /\ \A k \in DOMAIN DetailsFields :
                     field_fits(DetailsFields[k], j.items[k])
           THEN Ok([id |-> j.items[1].v, author |-> j.items[2].v,
                    width |-> j.items[3].v, height |-> j.items[4].v,
                    url |-> j.items[5].v, download_url |-> j.items[6].v])
           ELSE Err(DecodeError)
      [] OTHER -> Err(DecodeError)

\* deserialize_vec that leaves out the elements that do not decode
deserialize_vec_lenient(j) ==
    IF j.t = "arr"
    THEN LET good == {i \in DOMAIN j.items :
                         deserialize_details(j.items[i]).tag = "Ok"}
             nth(k) == CHOOSE i \in good :
                           Cardinality({m \in good : m <= i}) = k
         IN  Ok([k \in 1..Cardinality(good) |->
                    deserialize_details(j.items[nth(k)]).value])
    ELSE Err(DecodeError)

\* Deserialize for Vec<ImageDetails>: an array whose every element decodes
deserialize_vec(j) ==
    IF j.t = "arr" /\ \A i \in DOMAIN j.items :
                          deserialize_details(j.items[i]).tag = "Ok"
    THEN Ok([i \in DOMAIN j.items |-> deserialize_details(j.items[i]).value])
    ELSE Err(DecodeError)

\* Response::json::<ImageDetails>: read the whole body, then decode it
json_details(b) ==
    IF response_bytes(b).tag = "Err" THEN Err(response_bytes(b).err)
    ELSE deserialize_details(b.json)

\* Response::json::<Vec<ImageDetails>>
json_vec(b) ==
    IF response_bytes(b).tag = "Err" THEN Err(response_bytes(b).err)
    ELSE deserialize_vec(b.json)

\* ------------------------------------------------------------------------
\* PicsumClientBuilder and PicsumClient (lib.rs)
\* ------------------------------------------------------------------------

\* PicsumClientInner::default
PicsumClientInnerDefault == [client |-> "default", base_url |-> BASE_URL]

\* PicsumClientBuilder::new
PicsumClientBuilderNew == [client |-> None, base_url |-> BASE_URL]

\* Option::unwrap_or_default of the builder's transport
unwrap_or_default(o) == IF o = None THEN "default" ELSE o[1]

\* PicsumClientBuilder::build
build(self) ==
    [client |-> unwrap_or_default(self.client), base_url |-> self.base_url]

\* ------------------------------------------------------------------------
\* The requests of the four operations (api.rs)
\* ------------------------------------------------------------------------

\* `limit as u16`
as_u16(n) == n % (U16Max + 1)

\* a request: the URL that format! builds and the pairs given to query()
Request(url, query) == [url |-> url, query |-> query]

\* get_image_details_request to the default base URL
get_image_details_request_default(self, id) ==
    Request(<<BASE_URL, "/id/", id, "/info">>, << >>)

get_image_details_request(self, id) ==
    Request(<<self.base_url, "/id/", id, "/info">>, << >>)

get_images_request(self, page, limit) ==
    Request(<<self.base_url, "/v2/list">>,
            << <<"page", to_string(page)>>,
               <<"limit", to_string(as_u16(limit))>> >>)

get_image_request(self, id, image_settings) ==
    Request(<<self.base_url, "/id/", id, "/">>
              \o to_string(image_settings.width) \o <<"/">>
              \o to_string(image_settings.height)
              \o <<".", as_string(image_settings.file_type)>>,
            generate_query_params(image_settings))

get_random_image_request(self, image_settings) ==
    Request(<<self.base_url, "/">>
              \o to_string(image_settings.width) \o <<"/">>
              \o to_string(image_settings.height)
              \o <<".", as_string(image_settings.file_type)>>,
            generate_query_params(image_settings))

\* ------------------------------------------------------------------------
\* The `match response` of the four operations (api.rs)
\* ------------------------------------------------------------------------

\* the outcome of a match: the value the call returns, and the body that
\* was read from the response, if the match came to read it
Outcome(result, body) == [result |-> result, body |-> body]

\* `Err(err) => match err.status()`: the same four arms in each operation
match_err_status(err) ==
    LET status == err_status(err)
    IN  CASE status = Some(BAD_REQUEST) ->
               Err(InvalidRequest(err_to_string(err)))
          [] status = Some(INTERNAL_SERVER_ERROR) ->
               Err(ServerError(err_to_string(err)))
          [] status # None /\ status # Some(BAD_REQUEST)
                           /\ status # Some(INTERNAL_SERVER_ERROR) ->
               Err(UnexpectedError(status_to_string(status[1]) \o <<" ">>
                                   \o err_to_string(err)))
          [] status = None -> Err(UnexpectedError(err_to_string(err)))

\* send_failed with another kind of error
send_failed_server(err) == Err(ServerError(err_to_string(err)))

\* `Err(err) => Err(RequestError::UnexpectedError(err.to_string()))`: send()
\* failed
send_failed(err) == Err(UnexpectedError(err_to_string(err)))

\* `.map_err(|err| RequestError::InvalidResponse(err.to_string()))`
map_err_invalid_response(decoded) ==
    IF decoded.tag = "Ok" THEN decoded
    ELSE Err(InvalidResponse(err_to_string(decoded.err)))

get_image_details_match(response, b) ==
    IF response.tag = "Ok"
    THEN LET checked == error_for_status(response.value)
         IN  IF checked.tag = "Ok"
             THEN Outcome(map_err_invalid_response(json_details(b)), Some(b))
             ELSE Outcome(match_err_status(checked.err), None)
    ELSE Outcome(send_failed(response.err), None)

get_images_match(response, b) ==
    IF response.tag = "Ok"
    THEN LET checked == error_for_status(response.value)
         IN  IF checked.tag = "Ok"
             THEN Outcome(map_err_invalid_response(json_vec(b)), Some(b))
             ELSE Outcome(match_err_status(checked.err), None)
    ELSE Outcome(send_failed(response.err), None)

\* missing_header with another kind of error
missing_header_invalid ==
    Err(InvalidResponse(<<"Couldn't retrieve picsum-id header.">>))

\* `None => return Err(...)`: the response has no picsum-id header
missing_header ==
    Err(UnexpectedError(<<"Couldn't retrieve picsum-id header.">>))

\* new_image with the two fields exchanged
new_image_swapped(id, bytes) == Ok([id |-> bytes, data |-> id])

\* `Ok(Image { id: id.into(), data: bytes.to_vec() })`
new_image(id, bytes) == Ok([id |-> id, data |-> bytes])

\* `Ok(res) => { let id = ...; Ok(Image { id: id.into(), data: ... }) }`
\* image_from_response that reads the body before it looks for the header
image_from_response_body_first(res, b) ==
    LET header == headers_get(res, "picsum-id")
        text == to_str(header[1])
        read == response_bytes(b)
        unread == <<"Couldn't read response body: ">>
    IN  IF read.tag = "Err"
        THEN Outcome(Err(UnexpectedError(unread \o err_to_string(read.err))),
                     Some(b))
        ELSE IF header = None
        THEN Outcome(missing_header, Some(b))
        ELSE IF text.tag = "Err"
        THEN Outcome(Err(UnexpectedError(text.err)), Some(b))
        ELSE Outcome(new_image(text.value, read.value), Some(b))

\* `Ok(res) => { let id = ...; Ok(Image { id: id.into(), data: ... }) }`
image_from_response(res, b) ==
    LET header == headers_get(res, "picsum-id")
        text == to_str(header[1])
        read == response_bytes(b)
        unread == <<"Couldn't read response body: ">>
    IN  IF header = None
        THEN Outcome(missing_header, None)
        ELSE IF text.tag = "Err"
        THEN Outcome(Err(UnexpectedError(text.err)), None)
        ELSE IF read.tag = "Ok"
        THEN Outcome(new_image(text.value, read.value), Some(b))
        ELSE Outcome(Err(UnexpectedError(unread \o err_to_string(read.err))),
                     Some(b))

get_image_match(response, b) ==
    IF response.tag = "Ok"
    THEN LET checked == error_for_status(response.value)
         IN  IF checked.tag = "Ok"
             THEN image_from_response(checked.value, b)
             ELSE Outcome(match_err_status(checked.err), None)
    ELSE Outcome(send_failed(response.err), None)

get_random_image_match(response, b) ==
    IF response.tag = "Ok"
    THEN LET checked == error_for_status(response.value)
         IN  IF checked.tag = "Ok"
             THEN image_from_response(checked.value, b)
             ELSE Outcome(match_err_status(checked.err), None)
    ELSE Outcome(send_failed(response.err), None)

\* ------------------------------------------------------------------------
\* State
\* ------------------------------------------------------------------------

VARIABLES
    builder,     \* the PicsumClientBuilder: client, base_url
    client,      \* None, or Some(PicsumClientInner) once the client is made
    origin,      \* how the client was made: "none", "default" or "builder"
    pc,          \* where the current call is: idle, awaiting, matching, done
    op,          \* the operation of the current call
    args,        \* its arguments
    request,     \* None, or Some(the request it sent)
    response,    \* what send().await returned: Pending, Ok(head) or Err(e)
    body,        \* None, or Some(what reading the body gave)
    result,      \* what the call returned: Pending, Ok(value) or Err(error)
    ncalls,      \* the number of calls started
    sent,        \* the number of requests the current call sent
    outcomes,    \* the number of results the current call returned
    q_settings,  \* the ImageSettings given to generate_query_params
    q_params,    \* None, or Some(the parameters it returned)
    calls        \* the calls in flight at the same time, each with its own
                 \* pc, op, args, request, response, body and result

vars == <<builder, client, origin, pc, op, args, request, response, body,
          result, ncalls, sent, outcomes, q_settings, q_params, calls>>

client_vars == <<builder, client, origin>>
call_vars == <<pc, op, args, request, response, body, result, ncalls, sent,
               outcomes>>
query_vars == <<q_settings, q_params>>
conc_vars == <<calls>>

\* the calls that are made at the same time
ConcCalls == 1..MaxConcurrent

\* the arguments of a call; an operation leaves those it does not take at
\* these values
NoArgs == [id |-> "-", image_settings |-> ImageSettingsDefault,
           page |-> 0, limit |-> 0]

\* a call that has not started
IdleCall == [pc |-> "idle", op |-> "none", args |-> NoArgs, request |-> None,
             response |-> Pending, body |-> None, result |-> Pending]

Init ==
    /\ builder = PicsumClientBuilderNew
    /\ client = None
    /\ origin = "none"
    /\ pc = "idle"
    /\ op = "none"
    /\ args = NoArgs
    /\ request = None
    /\ response = Pending
    /\ body = None
    /\ result = Pending
    /\ ncalls = 0
    /\ sent = 0
    /\ outcomes = 0
    /\ q_settings = ImageSettingsDefault
    /\ q_params = None
    /\ calls = [i \in ConcCalls |-> IdleCall]

\* ------------------------------------------------------------------------
\* Making the client
\* ------------------------------------------------------------------------

\* PicsumClientBuilder::client
builder_client(c) ==
    /\ client = None
    /\ builder' = [builder EXCEPT !.client = Some(c)]
    /\ UNCHANGED <<client, origin>>
    /\ UNCHANGED call_vars
    /\ UNCHANGED query_vars
    /\ UNCHANGED conc_vars

\* PicsumClientBuilder::base_url
builder_base_url(base_url) ==
    /\ client = None
    /\ builder' = [builder EXCEPT !.base_url = base_url]
    /\ UNCHANGED <<client, origin>>
    /\ UNCHANGED call_vars
    /\ UNCHANGED query_vars
    /\ UNCHANGED conc_vars

\* PicsumClient::builder()...build()
builder_build ==
    /\ client = None
    /\ client' = Some(build(builder))
    /\ origin' = "builder"
    /\ UNCHANGED builder
    /\ UNCHANGED call_vars
    /\ UNCHANGED query_vars
    /\ UNCHANGED conc_vars

\* PicsumClient::default(), by a caller that does not use the builder
client_default ==
    /\ client = None
    /\ builder = PicsumClientBuilderNew
    /\ client' = Some(PicsumClientInnerDefault)
    /\ origin' = "default"
    /\ UNCHANGED builder
    /\ UNCHANGED call_vars
    /\ UNCHANGED query_vars
    /\ UNCHANGED conc_vars

\* ------------------------------------------------------------------------
\* A call: the request is sent, the transport answers, the answer is matched
\* ------------------------------------------------------------------------

\* the call of operation o with arguments a sends the request r
start_call(o, a, r) ==
    /\ client # None
    /\ pc \in {"idle", "done"}
    /\ ncalls < MaxCalls
    /\ pc' = "awaiting"
    /\ op' = o
    /\ args' = a
    /\ request' = Some(r)
    /\ response' = Pending
    /\ body' = None
    /\ result' = Pending
    /\ ncalls' = ncalls + 1
    /\ sent' = 1
    /\ outcomes' = 0
    /\ UNCHANGED client_vars
    /\ UNCHANGED query_vars
    /\ UNCHANGED conc_vars

\* the call returns what its match gave
finish_call(out) ==
    /\ pc' = "done"
    /\ result' = out.result
    /\ body' = out.body
    /\ outcomes' = outcomes + 1
    /\ UNCHANGED <<op, args, request, response, ncalls, sent>>
    /\ UNCHANGED client_vars
    /\ UNCHANGED query_vars
    /\ UNCHANGED conc_vars

get_image_details_send ==
    \E id \in Ids :
        /\ client # None
        /\ start_call("get_image_details", [NoArgs EXCEPT !.id = id],
                      get_image_details_request(client[1], id))

get_images_send ==
    \E page \in Pages, limit \in Limits :
        /\ client # None
        /\ start_call("get_images",
                      [NoArgs EXCEPT !.page = page, !.limit = limit],
                      get_images_request(client[1], page, limit))

get_image_send ==
    \E id \in Ids, image_settings \in ImageSettingsSet :
        /\ client # None
        /\ start_call("get_image",
                      [NoArgs EXCEPT !.id = id,
                                     !.image_settings = image_settings],
                      get_image_request(client[1], id, image_settings))

get_random_image_send ==
    \E image_settings \in ImageSettingsSet :
        /\ client # None
        /\ start_call("get_random_image",
                      [NoArgs EXCEPT !.image_settings = image_settings],
                      get_random_image_request(client[1], image_settings))

\* send().await gives a response: its status and headers
transport_responds ==
    \E head \in Heads :
        /\ pc = "awaiting"
        /\ pc' = "matching"
        /\ response' = Ok(head)
        /\ UNCHANGED <<op, args, request, body, result, ncalls, sent, outcomes>>
        /\ UNCHANGED client_vars
        /\ UNCHANGED query_vars
        /\ UNCHANGED conc_vars

\* send().await fails: no response was received
transport_fails ==
    \E e \in TransportErrors :
        /\ pc = "awaiting"
        /\ pc' = "matching"
        /\ response' = Err(SendError(e))
        /\ UNCHANGED <<op, args, request, body, result, ncalls, sent, outcomes>>
        /\ UNCHANGED client_vars
        /\ UNCHANGED query_vars
        /\ UNCHANGED conc_vars

get_image_details_return ==
    \E b \in BodyOutcomes :
        /\ pc = "matching" /\ op = "get_image_details"
        /\ finish_call(get_image_details_match(response, b))

\* get_images_return that sends the request again after a failure
get_images_return_retry ==
    \E b \in BodyOutcomes :
        /\ pc = "matching" /\ op = "get_images"
        /\ IF get_images_match(response, b).result.tag = "Err"
           THEN /\ pc' = "awaiting"
                /\ sent' = sent + 1
                /\ response' = Pending
                /\ UNCHANGED <<op, args, request, body, result, ncalls,
                               outcomes>>
                /\ UNCHANGED client_vars
                /\ UNCHANGED query_vars
                /\ UNCHANGED conc_vars
           ELSE finish_call(get_images_match(response, b))

get_images_return ==
    \E b \in BodyOutcomes :
        /\ pc = "matching" /\ op = "get_images"
        /\ finish_call(get_images_match(response, b))

get_image_return ==
    \E b \in BodyOutcomes :
        /\ pc = "matching" /\ op = "get_image"
        /\ finish_call(get_image_match(response, b))

get_random_image_return ==
    \E b \in BodyOutcomes :
        /\ pc = "matching" /\ op = "get_random_image"
        /\ finish_call(get_random_image_match(response, b))

Next ==
    \/ \E c \in Transports : builder_client(c)
    \/ \E u \in BaseUrls : builder_base_url(u)
    \/ builder_build
    \/ client_default
    \/ get_image_details_send
    \/ get_images_send
    \/ get_image_send
    \/ get_random_image_send
    \/ transport_responds
    \/ transport_fails
    \/ get_image_details_return
    \/ get_images_return
    \/ get_image_return
    \/ get_random_image_return

Spec == Init /\ [][Next]_vars

\* ------------------------------------------------------------------------
\* generate_query_params on its own, for every blur of the u8 type
\* ------------------------------------------------------------------------

QuerySettingsSet ==
    [width : {400}, height : {300}, grayscale : BOOLEAN,
     blur : 0..U8Max, file_type : {"Jpeg"}]

InitQuery ==
    /\ builder = PicsumClientBuilderNew
    /\ client = None
    /\ origin = "none"
    /\ pc = "idle"
    /\ op = "none"
    /\ args = NoArgs
    /\ request = None
    /\ response = Pending
    /\ body = None
    /\ result = Pending
    /\ ncalls = 0
    /\ sent = 0
    /\ outcomes = 0
    /\ q_settings \in QuerySettingsSet
    /\ q_params = None
    /\ calls = [i \in ConcCalls |-> IdleCall]

encode_query ==
    /\ q_params = None
    /\ q_params' = Some(generate_query_params(q_settings))
    /\ UNCHANGED q_settings
    /\ UNCHANGED client_vars
    /\ UNCHANGED call_vars
    /\ UNCHANGED conc_vars

\* the settings a caller builds from the parameters that were emitted:
\* grayscale when there is an entry grayscale=true, and the blur that the
\* blur entry is the decimal notation of, 0 when there is none
settings_from_params(q, self) ==
    [self EXCEPT
       !.grayscale = \E i \in DOMAIN q : q[i] = <<"grayscale", <<"true">>>>,
       !.blur = IF \E i \in DOMAIN q : q[i][1] = "blur"
                THEN DecimalValue(q[CHOOSE i \in DOMAIN q : q[i][1] = "blur"][2])
                ELSE 0]

\* the emitted parameters are read back into settings and encoded again
reencode_query ==
    /\ q_params # None
    /\ q_settings' = settings_from_params(q_params[1], q_settings)
    /\ q_params' = Some(generate_query_params(q_settings'))
    /\ UNCHANGED client_vars
    /\ UNCHANGED call_vars
    /\ UNCHANGED conc_vars

NextQuery ==
    \/ encode_query
    \/ reencode_query

SpecQuery == InitQuery /\ [][NextQuery]_vars

\* ------------------------------------------------------------------------
\* Reading requests, responses and results
\* ------------------------------------------------------------------------

Done == pc = "done"

ImageOps == {"get_image", "get_random_image"}
JsonOps == {"get_image_details", "get_images"}

\* the response was received, and its status
Received == response.tag = "Ok"
Status == response.value.status

\* the call returned the error kind k
Failed(k) == result.tag = "Err" /\ result.err.kind = k
Succeeded == result.tag = "Ok"

\* the message starts with the number n
StartsWithNumber(msg, n) == IsDecimalOf(TakeDigits(msg), n)

\* the response carries a picsum-id header
HasPicsumId == \E i \in DOMAIN response.value.headers :
                   response.value.headers[i][1] = "picsum-id"
PicsumId == response.value.headers[
                CHOOSE i \in DOMAIN response.value.headers :
                    response.value.headers[i][1] = "picsum-id"][2]

\* ------------------------------------------------------------------------
\* Claims
\* ------------------------------------------------------------------------

\* C1: in each of the four operations, a response with status 400 gives
\* InvalidRequest, one with status 500 gives ServerError, and one with any
\* other status that is not a success (200..299) gives UnexpectedError with
\* a message that carries the number of the status; such a status never
\* gives Ok or another kind of error.
C1_StatusMapping ==
    (Done /\ Received /\ ~(Status >= 200 /\ Status < 300)) =>
        /\ ~Succeeded
        /\ Status = 400 => Failed("InvalidRequest")
        /\ Status = 500 => Failed("ServerError")
        /\ Status \notin {400, 500} =>
               /\ Failed("UnexpectedError")
               /\ StartsWithNumber(result.err.msg, Status)

\* C2: in get_image and get_random_image, a response with a success status
\* and no picsum-id header gives UnexpectedError, never InvalidResponse and
\* never an Image, whatever the body is.
C2_MissingHeader ==
    (Done /\ op \in ImageOps /\ Received
          /\ Status >= 200 /\ Status < 300 /\ ~HasPicsumId) =>
        Failed("UnexpectedError")

C2_Witness ==
    /\ Done /\ op = "get_random_image" /\ Received
    /\ Status = 200 /\ ~HasPicsumId
    /\ Failed("UnexpectedError")

\* the body that was read decodes into what the operation returns
Decodes ==
    /\ body # None
    /\ IF op = "get_images"
       THEN deserialize_vec(body[1].json).tag = "Ok"
       ELSE deserialize_details(body[1].json).tag = "Ok"

\* C3: a call returns InvalidResponse exactly when it is get_image_details or
\* get_images, the status of the response is a success (200..299), and the
\* body does not decode into the expected JSON shape.
C3_InvalidResponseIffDecodeFailure ==
    Done =>
        (Failed("InvalidResponse") <=>
            /\ op \in JsonOps
            /\ Received /\ Status >= 200 /\ Status < 300
            /\ ~Decodes)

\* C4: in each of the four operations, when send() fails the call returns
\* UnexpectedError with the message of the transport's error.
C4_TransportFailure ==
    (Done /\ response.tag = "Err") =>
        /\ Failed("UnexpectedError")
        /\ \E i \in DOMAIN result.err.msg :
               result.err.msg[i] = response.err.kind

C4_Witness ==
    /\ Done /\ op = "get_images"
    /\ response.tag = "Err" /\ response.err.kind = "timeout"
    /\ Failed("UnexpectedError")

\* the positions of key k in a sequence of query parameters
Entries(q, k) == {i \in DOMAIN q : q[i][1] = k}

\* C5: for every stored blur b in 0..255, the parameters derived from the
\* settings have a blur entry exactly when b > 0, at most one, and its value
\* is the decimal notation of min(b, 10).
C5_BlurClamped ==
    q_params # None =>
        LET q == q_params[1]
            b == q_settings.blur
        IN  /\ Cardinality(Entries(q, "blur")) <= 1
            /\ Entries(q, "blur") # {} <=> b > 0
            /\ \A i \in Entries(q, "blur") :
                   IsDecimalOf(q[i][2], IF b > 10 THEN 10 ELSE b)

C5_Witness ==
    /\ q_params # None
    /\ q_settings.blur = 255
    /\ \E i \in DOMAIN q_params[1] : q_params[1][i] = <<"blur", <<"1", "0">>>>

\* C6: the query parameters that get_image and get_random_image send have
\* no grayscale key when the flag is false and exactly one entry
\* grayscale=true when it is true, and no key other than grayscale and blur.
C6_GrayscaleOnlyWhenTrue ==
    (op \in ImageOps /\ request # None) =>
        LET q == request[1].query
        IN  /\ ~args.image_settings.grayscale => Entries(q, "grayscale") = {}
            /\ args.image_settings.grayscale =>
                   /\ Cardinality(Entries(q, "grayscale")) = 1
                   /\ \A i \in Entries(q, "grayscale") : q[i][2] = <<"true">>
            /\ \A i \in DOMAIN q : q[i][1] \in {"grayscale", "blur"}

C6_Witness ==
    /\ op = "get_image" /\ request # None
    /\ ~args.image_settings.grayscale
    /\ args.image_settings.blur = 3
    /\ request[1].query = << <<"blur", <<"3">>>> >>

\* C7: when get_image or get_random_image returns Ok(Image), Image.id is
\* the value of the picsum-id header of the response and Image.data is the
\* bytes of the body that was read.
C7_ImageFromHeaderAndBody ==
    (Done /\ op \in ImageOps /\ Succeeded) =>
        /\ Received /\ HasPicsumId
        /\ result.value.id = PicsumId
        /\ body # None
        /\ result.value.data = body[1].bytes

C7_Witness ==
    /\ Done /\ op = "get_image" /\ Succeeded
    /\ args.id = "1"
    /\ PicsumId = <<52, 50>>
    /\ result.value = [id |-> <<52, 50>>, data |-> <<255, 216, 255>>]

\* s without its first n elements
Drop(s, n) == SubSeq(s, n + 1, Len(s))

\* p is `{width}/{height}.{ext}` for the settings
IsSizePath(p, image_settings) ==
    LET w == TakeDigits(p)
        r1 == Drop(p, Len(w))
        h == TakeDigits(Drop(r1, 1))
        r2 == Drop(r1, 1 + Len(h))
    IN  /\ IsDecimalOf(w, image_settings.width)
        /\ r1 # << >> /\ Head(r1) = "/"
        /\ IsDecimalOf(h, image_settings.height)
        /\ r2 = <<".", IF image_settings.file_type = "Jpeg"
                       THEN "jpg" ELSE "webp">>

\* C8: get_image requests /id/{id}/{width}/{height}.{ext}, get_random_image
\* /{width}/{height}.{ext}, get_image_details /id/{id}/info with no query
\* parameters, and get_images /v2/list with the parameters page and limit
\* equal to the arguments; {ext} is jpg for Jpeg and webp for Webp.
C8_PathOfOperation ==
    request # None =>
        LET path == Tail(request[1].url)
            q == request[1].query
        IN  CASE op = "get_image" ->
                   /\ Len(path) >= 3
                   /\ SubSeq(path, 1, 3) = <<"/id/", args.id, "/">>
                   /\ IsSizePath(Drop(path, 3), args.image_settings)
              [] op = "get_random_image" ->
                   /\ path # << >> /\ Head(path) = "/"
                   /\ IsSizePath(Tail(path), args.image_settings)
              [] op = "get_image_details" ->
                   /\ path = <<"/id/", args.id, "/info">>
                   /\ q = << >>
              [] op = "get_images" ->
                   /\ path = <<"/v2/list">>
                   /\ Len(q) = 2
                   /\ Cardinality(Entries(q, "page")) = 1
                   /\ Cardinality(Entries(q, "limit")) = 1
                   /\ \A i \in Entries(q, "page") :
                          IsDecimalOf(q[i][2], args.page)
                   /\ \A i \in Entries(q, "limit") :
                          IsDecimalOf(q[i][2], args.limit)

C8_Witness ==
    /\ op = "get_image" /\ request # None
    /\ args.id = "42"
    /\ args.image_settings.file_type = "Jpeg"
    /\ Tail(request[1].url)
         = <<"/id/", "42", "/", "4", "0", "0", "/", "3", "0", "0", ".", "jpg">>

\* C9: every request of a client made by default goes to
\* https://picsum.photos, every request of a client made by a builder goes to
\* the builder's base URL, and no step changes the client once it is made.
C9_BaseUrlFixed ==
    [][ /\ client # None => client' = client
        /\ request' # None =>
               Head(request'[1].url) = IF origin' = "default"
                                       THEN "https://picsum.photos"
                                       ELSE builder'.base_url ]_vars

C9_Witness ==
    /\ Done /\ op = "get_image_details"
    /\ origin = "builder" /\ builder.base_url = OtherUrl
    /\ Head(request[1].url) = "http://localhost:8080"

\* C10: every call sends exactly one request and returns exactly one
\* outcome: nothing is sent again after a failure or after a success.
C10_OneRequestOneOutcome ==
    /\ pc = "idle" => sent = 0 /\ outcomes = 0
    /\ pc \in {"awaiting", "matching"} =>
           sent = 1 /\ outcomes = 0 /\ result = Pending
    /\ pc = "done" => sent = 1 /\ outcomes = 1 /\ result.tag \in {"Ok", "Err"}

C10_Witness ==
    /\ Done /\ op = "get_images"
    /\ Failed("InvalidResponse")
    /\ sent = 1 /\ outcomes = 1

\* ------------------------------------------------------------------------
\* Calls made at the same time on one client and its clones
\* ------------------------------------------------------------------------

\* Clone for PicsumClient (derived): the clone shares the Arc of the inner
clone(self) == self

ConcSettings ==
    {[width |-> 1, height |-> 300, grayscale |-> TRUE, blur |-> 200,
      file_type |-> "Webp"]}
ConcHeads ==
    [status : {200, 404},
     headers : {<< >>, << <<"picsum-id", <<49>>>> >>}]
ConcErrors == {"timeout"}
ConcBodies ==
    { Body(<<123, 1>>, DetailsObj1),
      Body(<<91, 1, 2>>, JArr(<<DetailsObj1, DetailsObj2>>)),
      BodyReadError }

\* the client was made, with the default base URL or with another
InitConcurrent ==
    /\ builder \in {PicsumClientBuilderNew,
                    [PicsumClientBuilderNew EXCEPT !.base_url = OtherUrl]}
    /\ client = Some(build(builder))
    /\ origin = "builder"
    /\ pc = "idle"
    /\ op = "none"
    /\ args = NoArgs
    /\ request = None
    /\ response = Pending
    /\ body = None
    /\ result = Pending
    /\ ncalls = 0
    /\ sent = 0
    /\ outcomes = 0
    /\ q_settings = ImageSettingsDefault
    /\ q_params = None
    /\ calls = [i \in ConcCalls |-> IdleCall]

\* the `match response` of operation o
operation_match(o, resp, b) ==
    CASE o = "get_image_details" -> get_image_details_match(resp, b)
      [] o = "get_images" -> get_images_match(resp, b)
      [] o = "get_image" -> get_image_match(resp, b)
      [] o = "get_random_image" -> get_random_image_match(resp, b)

\* call i of operation o with arguments a sends the request r
concurrent_start(i, o, a, r) ==
    /\ calls[i].pc = "idle"
    /\ calls' = [calls EXCEPT ![i] =
                   [pc |-> "awaiting", op |-> o, args |-> a,
                    request |-> Some(r), response |-> Pending,
                    body |-> None, result |-> Pending]]
    /\ UNCHANGED client_vars
    /\ UNCHANGED call_vars
    /\ UNCHANGED query_vars

\* call i is made on the client or on a clone of it
concurrent_send(i) ==
    \E self \in {client[1], clone(client[1])} :
        \/ concurrent_start(i, "get_image_details", [NoArgs EXCEPT !.id = "1"],
                            get_image_details_request(self, "1"))
        \/ concurrent_start(i, "get_images",
                            [NoArgs EXCEPT !.page = 1, !.limit = 10],
                            get_images_request(self, 1, 10))
        \/ \E image_settings \in ConcSettings :
               concurrent_start(i, "get_image",
                                [NoArgs EXCEPT !.id = "1",
                                     !.image_settings = image_settings],
                                get_image_request(self, "1", image_settings))
        \/ \E image_settings \in ConcSettings :
               concurrent_start(i, "get_random_image",
                                [NoArgs EXCEPT
                                     !.image_settings = image_settings],
                                get_random_image_request(self, image_settings))

\* send().await of call i gives a response
concurrent_responds(i) ==
    \E head \in ConcHeads :
        /\ calls[i].pc = "awaiting"
        /\ calls' = [calls EXCEPT ![i].pc = "matching",
                                  ![i].response = Ok(head)]
        /\ UNCHANGED client_vars
        /\ UNCHANGED call_vars
        /\ UNCHANGED query_vars

\* send().await of call i fails
concurrent_fails(i) ==
    \E e \in ConcErrors :
        /\ calls[i].pc = "awaiting"
        /\ calls' = [calls EXCEPT ![i].pc = "matching",
                                  ![i].response = Err(SendError(e))]
        /\ UNCHANGED client_vars
        /\ UNCHANGED call_vars
        /\ UNCHANGED query_vars

\* concurrent_return that fails while another call is in flight
concurrent_return_busy(i) ==
    \E b \in ConcBodies :
        LET out == operation_match(calls[i].op, calls[i].response, b)
            busy == \E j \in ConcCalls \ {i} :
                        calls[j].pc \in {"awaiting", "matching"}
        IN  /\ calls[i].pc = "matching"
            /\ calls' = [calls EXCEPT
                           ![i].pc = "done",
                           ![i].result = IF busy
                                         THEN Err(UnexpectedError(<<"busy">>))
                                         ELSE out.result,
                           ![i].body = out.body]
            /\ UNCHANGED client_vars
            /\ UNCHANGED call_vars
            /\ UNCHANGED query_vars

\* call i matches its response and returns
concurrent_return(i) ==
    \E b \in ConcBodies :
        LET out == operation_match(calls[i].op, calls[i].response, b)
        IN  /\ calls[i].pc = "matching"
            /\ calls' = [calls EXCEPT ![i].pc = "done",
                                      ![i].result = out.result,
                                      ![i].body = out.body]
            /\ UNCHANGED client_vars
            /\ UNCHANGED call_vars
            /\ UNCHANGED query_vars

NextConcurrent ==
    \E i \in ConcCalls :
        \/ concurrent_send(i)
        \/ concurrent_responds(i)
        \/ concurrent_fails(i)
        \/ concurrent_return(i)

SpecConcurrent == InitConcurrent /\ [][NextConcurrent]_vars

ParamSet(q) == {q[i] : i \in DOMAIN q}

\* C12: encoding again the settings read back from the emitted parameters
\* gives the same parameter set, for every ImageSettings; the settings
\* {grayscale: true, blur: 15} and {grayscale: true, blur: 10} both encode
\* to exactly {grayscale=true, blur=10}.
C12_ReencodingIdempotent ==
    [][ /\ q_params # None => ParamSet(q_params'[1]) = ParamSet(q_params[1])
        /\ (/\ q_params' # None
            /\ q_settings'.grayscale
            /\ q_settings'.blur \in {10, 15}) =>
               ParamSet(q_params'[1])
                 = {<<"grayscale", <<"true">>>>, <<"blur", <<"1", "0">>>>} ]_vars

\* the settings read back from the encoding of a blur above 10 were encoded
C12_Witness ==
    /\ q_settings.grayscale
    /\ q_settings.blur = 10
    /\ q_params = Some(<< <<"grayscale", <<"true">>>>,
                          <<"blur", <<"1", "0">>>> >>)

\* the JSON object o has each field of ImageDetails once, with a value of
\* the type of the field
WellFormedObject(o) ==
    /\ o.t = "obj"
    /\ \A k \in DOMAIN DetailsFields :
           /\ Cardinality({m \in DOMAIN o.members :
                              o.members[m][1] = DetailsFields[k]}) = 1
           /\ \A m \in DOMAIN o.members :
                  o.members[m][1] = DetailsFields[k] =>
                      IF DetailsFields[k] \in {"width", "height"}
                      THEN /\ o.members[m][2].t = "num"
                           /\ o.members[m][2].v \in 0..U16Max
                      ELSE o.members[m][2].t = "str"

\* the ImageDetails d has in each field the value of the JSON object o
SameFields(d, o) ==
    /\ o.t = "obj"
    /\ \A f \in {"id", "author", "width", "height", "url", "download_url"} :
           \E m \in DOMAIN o.members :
               o.members[m][1] = f /\ o.members[m][2].v = d[f]

\* C13: when get_images returns Ok, the result has the elements of the
\* JSON array of the body, as many and in the same order, each equal to its
\* object field for field; when get_image_details returns Ok, the result
\* equals the object of the body field for field; and a success response
\* with a well-formed array or object gives Ok.
C13_DecodedVerbatim ==
    (Done /\ op \in JsonOps /\ body # None) =>
        LET json == body[1].json
        IN  /\ (op = "get_images" /\ Succeeded) =>
                   /\ json.t = "arr"
                   /\ Len(result.value) = Len(json.items)
                   /\ \A i \in DOMAIN json.items :
                          SameFields(result.value[i], json.items[i])
            /\ (op = "get_image_details" /\ Succeeded) =>
                   SameFields(result.value, json)
            /\ (/\ op = "get_images" /\ Status = 200 /\ json.t = "arr"
                /\ \A i \in DOMAIN json.items : WellFormedObject(json.items[i]))
                   => Succeeded
            /\ (op = "get_image_details" /\ Status = 200
                    /\ WellFormedObject(json)) => Succeeded

\* get_images(1, 10) answered with ten objects returned ten elements
C13_Witness ==
    /\ Done /\ op = "get_images" /\ Succeeded
    /\ args.page = 1 /\ args.limit = 10
    /\ Status = 200
    /\ body[1].json.t = "arr" /\ Len(body[1].json.items) = 10
    /\ Len(result.value) = 10
    /\ result.value[2].author = "Paul Jarvis"

\* ------------------------------------------------------------------------
\* The endpoints module: get_image of endpoints::image and get_random_image
\* of endpoints::random
\* ------------------------------------------------------------------------

\* bool::to_string
bool_to_string(b) == IF b THEN <<"true">> ELSE <<"false">>

\* FileType::as_string of the endpoints module
endpoints_as_string(file_type) ==
    CASE file_type = "Jpeg" -> "jpg"
      [] file_type = "Webp" -> "webp"

\* ImageSettings::get_blur_value and has_blur of the endpoints module
endpoints_get_blur_value(self) == Min(MaxBlur, self.blur)
endpoints_has_blur(self) == self.blur > 0

\* RandomImageParameters, as its builder makes them
RandomImageParametersSet ==
    [width : Widths, height : Heights, grayscale : BOOLEAN,
     blur : BlurValues, file_type : FileTypes]

\* the query parameters get_image of endpoints::image builds
endpoints_image_query_params(image_settings) ==
    << <<"grayscale", bool_to_string(image_settings.grayscale)>> >>
    \o (IF endpoints_has_blur(image_settings)
        THEN << <<"blur", to_string(endpoints_get_blur_value(image_settings))>> >>
        ELSE << >>)

\* the query parameters get_random_image of endpoints::random builds
endpoints_random_query_params(parameters) ==
    << <<"grayscale", bool_to_string(parameters.grayscale)>> >>
    \o (IF parameters.blur > 0
        THEN << <<"blur", to_string(Min(MaxBlur, parameters.blur))>> >>
        ELSE << >>)

endpoints_get_image_request(id, image_settings) ==
    Request(<<BASE_URL, "/id/", id, "/">>
              \o to_string(image_settings.width) \o <<"/">>
              \o to_string(image_settings.height)
              \o <<".", endpoints_as_string(image_settings.file_type)>>,
            endpoints_image_query_params(image_settings))

endpoints_get_random_image_request(parameters) ==
    Request(<<BASE_URL, "/">>
              \o to_string(parameters.width) \o <<"/">>
              \o to_string(parameters.height)
              \o <<".", endpoints_as_string(parameters.file_type)>>,
            endpoints_random_query_params(parameters))

\* Image { id, image } of the endpoints module
endpoints_new_image(id, image) == Ok([id |-> id, image |-> image])

\* the Ok(res) arm of both operations: the header, then the body
endpoints_image_from_response(res, b) ==
    LET header == headers_get(res, "picsum-id")
        text == to_str(header[1])
        read == response_bytes(b)
        unread == <<"Couldn't read response body: ">>
    IN  IF header = None
        THEN Outcome(missing_header, None)
        ELSE IF text.tag = "Err"
        THEN Outcome(Err(UnexpectedError(text.err)), None)
        ELSE IF read.tag = "Ok"
        THEN Outcome(endpoints_new_image(text.value, read.value), Some(b))
        ELSE Outcome(Err(UnexpectedError(unread \o err_to_string(read.err))),
                     Some(b))

endpoints_get_image_match(resp, b) ==
    IF resp.tag = "Ok"
    THEN LET checked == error_for_status(resp.value)
         IN  IF checked.tag = "Ok"
             THEN endpoints_image_from_response(checked.value, b)
             ELSE Outcome(match_err_status(checked.err), None)
    ELSE Outcome(send_failed(resp.err), None)

endpoints_get_random_image_match(resp, b) ==
    IF resp.tag = "Ok"
    THEN LET checked == error_for_status(resp.value)
         IN  IF checked.tag = "Ok"
             THEN endpoints_image_from_response(checked.value, b)
             ELSE Outcome(match_err_status(checked.err), None)
    ELSE Outcome(send_failed(resp.err), None)

\* the client of the examples of the module: PicsumClient::default()
InitEndpoints ==
    /\ builder = PicsumClientBuilderNew
    /\ client = Some(PicsumClientInnerDefault)
    /\ origin = "default"
    /\ pc = "idle"
    /\ op = "none"
    /\ args = NoArgs
    /\ request = None
    /\ response = Pending
    /\ body = None
    /\ result = Pending
    /\ ncalls = 0
    /\ sent = 0
    /\ outcomes = 0
    /\ q_settings = ImageSettingsDefault
    /\ q_params = None
    /\ calls = [i \in ConcCalls |-> IdleCall]

endpoints_get_image_send ==
    \E id \in Ids, image_settings \in ImageSettingsSet :
        start_call("endpoints::image::get_image",
                   [NoArgs EXCEPT !.id = id,
                                  !.image_settings = image_settings],
                   endpoints_get_image_request(id, image_settings))

endpoints_get_random_image_send ==
    \E parameters \in RandomImageParametersSet :
        start_call("endpoints::random::get_random_image",
                   [NoArgs EXCEPT !.image_settings = parameters],
                   endpoints_get_random_image_request(parameters))

endpoints_get_image_return ==
    \E b \in BodyOutcomes :
        /\ pc = "matching" /\ op = "endpoints::image::get_image"
        /\ finish_call(endpoints_get_image_match(response, b))

endpoints_get_random_image_return ==
    \E b \in BodyOutcomes :
        /\ pc = "matching" /\ op = "endpoints::random::get_random_image"
        /\ finish_call(endpoints_get_random_image_match(response, b))

NextEndpoints ==
    \/ endpoints_get_image_send
    \/ endpoints_get_random_image_send
    \/ transport_responds
    \/ transport_fails
    \/ endpoints_get_image_return
    \/ endpoints_get_random_image_return

SpecEndpoints == InitEndpoints /\ [][NextEndpoints]_vars

EndpointsOps ==
    {"endpoints::image::get_image", "endpoints::random::get_random_image"}

\* C14: the query parameters that get_image of endpoints::image and
\* get_random_image of endpoints::random send have no grayscale key when the
\* flag is false and exactly one entry grayscale=true when it is true.
C14_EndpointsGrayscaleOnlyWhenTrue ==
    (op \in EndpointsOps /\ request # None) =>
        LET q == request[1].query
        IN  /\ ~args.image_settings.grayscale => Entries(q, "grayscale") = {}
            /\ args.image_settings.grayscale =>
                   /\ Cardinality(Entries(q, "grayscale")) = 1
                   /\ \A i \in Entries(q, "grayscale") : q[i][2] = <<"true">>

\* C15: in each of the four operations, a response whose status is not a
\* success (200..299) never gives Ok, whatever its headers and body are; the
\* body is not read, and the kind of the error is the one of the status:
\* InvalidRequest for 400, ServerError for 500, UnexpectedError otherwise.
C15_StatusBeforeDecoding ==
    (Done /\ Received /\ Status \notin 200..299) =>
        /\ ~Succeeded
        /\ body = None
        /\ result.err.kind = (CASE Status = 400 -> "InvalidRequest"
                                [] Status = 500 -> "ServerError"
                                [] OTHER -> "UnexpectedError")

\* the picsum-id header of the response is there and is text
UsableHeader ==
    /\ HasPicsumId
    /\ \A i \in DOMAIN PicsumId :
           (PicsumId[i] >= 32 /\ PicsumId[i] <= 126) \/ PicsumId[i] = 9

\* the call returned the error of reading the body
BodyReadFailed ==
    /\ Failed("UnexpectedError")
    /\ result.err.msg[1] = "Couldn't read response body: "

\* C16: in get_image and get_random_image, a success response whose
\* picsum-id header is missing or is not text gives UnexpectedError that is
\* not the error of reading the body, and the body is not read; the error of
\* reading the body is returned only for a response with a usable header
\* whose body was read and failed; none of these returns an Image.
C16_HeaderBeforeBody ==
    (Done /\ op \in ImageOps) =>
        /\ (Received /\ Status \in 200..299 /\ ~UsableHeader) =>
               /\ Failed("UnexpectedError")
               /\ ~BodyReadFailed
               /\ body = None
        /\ BodyReadFailed =>
               /\ Received /\ UsableHeader
               /\ body = Some(BodyReadError)
        /\ (Received /\ Status \in 200..299 /\ body = Some(BodyReadError)) =>
               BodyReadFailed

\* get_image answered with a picsum-id header that is not text returned the
\* error of the header and did not read the body
C16_Witness ==
    /\ Done /\ op = "get_image" /\ Received /\ Status = 200
    /\ HasPicsumId /\ ~UsableHeader
    /\ Failed("UnexpectedError") /\ ~BodyReadFailed
    /\ body = None

====
